---------------------------- MODULE Spec2Model ----------------------------
(***************************************************************************)
(* The client-side session/message state machine of the chat page          *)
(* (src/app/page.tsx, component Home) together with the /api/chat route    *)
(* handler (src/unnamed/part_000, POST).                                   *)
(*                                                                         *)
(* Strings are sequences of one-character strings, so that slice, concat   *)
(* and substring search are computed.  A session id is the decimal string  *)
(* of the clock (Date.now().toString()).  A timestamp is what              *)
(* toLocaleString() keeps of the clock: the whole seconds.  Message        *)
(* indexes are 0-based as in the source; sequences are 1-based.            *)
(***************************************************************************)
EXTENDS Integers, Sequences, FiniteSets, TLC

VARIABLES
  topic,                \* useState("")            page.tsx:27
  sessions,             \* useState<Session[]>([]) page.tsx:28
  currentSessionId,     \* useState(null)          page.tsx:29
  isLoading,            \* useState(false)         page.tsx:30
  editingMessageIndex,  \* useState(null)          page.tsx:35
  editContent,          \* useState("")            page.tsx:36
  showEmojiPicker,      \* useState(null)          page.tsx:37 (msgIndex only)
  pending,              \* handleSubmit calls suspended at the await (line 94)
  stored,               \* localStorage["chatSessions"]: << >> or << text >>
  now,                  \* the clock in ms (Date.now(), new Date())
  mounted,              \* FALSE once an uncaught error has unmounted the page
  searchQuery,          \* useState("")            page.tsx:34
  visibleMessages,      \* useState(10)            page.tsx:38
  scenario,             \* which gestures the user makes in this run
  ev                    \* history: the last operation and its arguments

vars == << topic, sessions, currentSessionId, isLoading, editingMessageIndex,
           editContent, showEmojiPicker, pending, stored, now, mounted,
           searchQuery, visibleMessages, scenario, ev >>

---------------------------------------------------------------------------
(* Bounds of the model. *)
MaxSessions == 2
MaxMessages == 3
MaxPending == 2
MaxReactions == 2
MaxLongMessages == 13

---------------------------------------------------------------------------
(* String literals of the source. *)
Apology ==
  << "S","o","r","r","y",","," ","s","o","m","e","t","h","i","n","g"," ","w",
     "e","n","t"," ","w","r","o","n","g","."," ","T","r","y"," ","a","g","a",
     "i","n","!" >>

NewChat ==
  << "N","e","w"," ","C","h","a","t" >>

SourcesHead ==
  << "\n","\n","*","*","S","o","u","r","c","e","s","*","*",":","\n","-"," ",
     "[","E","x","a","m","p","l","e"," ","S","o","u","r","c","e"," ","1","]",
     "(","h","t","t","p","s",":","/","/","e","x","a","m","p","l","e",".","c",
     "o","m","/" >>

SourcesMid ==
  << "-","1",")","\n","-"," ","[","E","x","a","m","p","l","e"," ","S","o",
     "u","r","c","e"," ","2","]","(","h","t","t","p","s",":","/","/","e","x",
     "a","m","p","l","e",".","c","o","m","/" >>

SourcesTail ==
  << "-","2",")" >>

(* Inputs: what the user types, what the provider generates, how it fails. *)
Blank ==
  << " " >>

LongTopic ==
  << "t","e","l","l"," ","m","e"," ","a","b","o","u","t"," ","t","h","e"," ",
     "m","o","o","n" >>

Mars ==
  << "M","a","r","s" >>

NetworkError ==
  << "N","e","t","w","o","r","k"," ","E","r","r","o","r" >>

Edited ==
  << "e","d" >>

Moon ==
  << "M","O","O","N" >>

Sorry ==
  << "s","o","r","r","y" >>

TopicInputs == { Blank, LongTopic }
\* what the user types in the search box: nothing, a word of the topic in
\* capitals, a word of the apology in small letters
Queries == { << >>, Moon, Sorry }
GeneratedTexts == { Mars }
EditInputs == { Edited }
Emojis == { "thumbsup", "heart" }
\* an upstream failure: axiosError.message and axiosError.response?.status
\* (0: the request got no response)
UpstreamFailures ==
  { [message |-> NetworkError, status |-> 0],
    [message |-> NetworkError, status |-> 429] }
\* later instants of the clock, in ms: five minutes after the start, and a
\* millisecond more
Instants == { 300000, 300001 }

(* What the user does in a run.  Every run has the topic box, the send      *)
(* button, the Enter key and the session list.  "core": the blank topic and *)
(* overlapping requests; "reload": page reloads, the search box, a damaged  *)
(* store, with time passing; "pin": pinning and page reloads; "edit":       *)
(* editing and pinning; "late": editing, with time passing; "react":        *)
(* reactions; "long": one long conversation and the Load More button.       *)
Scenarios == { "core", "reload", "pin", "edit", "late", "react", "long" }
TopicsOf(sc) == IF sc = "core" THEN TopicInputs ELSE { LongTopic }
PendingOf(sc) == IF sc = "core" THEN MaxPending ELSE 1
MessagesOf(sc) == IF sc = "long" THEN MaxLongMessages ELSE MaxMessages
InstantsOf(sc) ==
  IF sc = "late" THEN Instants
  ELSE IF sc \in { "reload", "pin" } THEN { 300000 }
  ELSE { }

\* the readings the clock can have after the start: a gesture later than a
\* session's creation finds the clock a millisecond further at least
ReadingsOf(sc) ==
  IF sc \in { "reload", "pin", "late" } THEN { 1 } \cup Instants
  ELSE IF sc = "core" THEN { 1, 2 }
  ELSE { 1 }

Null == "null"
NoIndex == -1

\* useState(10): the number of message rows shown at first
InitialVisible == 10

\* a stored text that is not JSON: the single character {
Unparseable == [ raw |-> << "{" >> ]

---------------------------------------------------------------------------
(* Pure functions. *)
Min(a, b) == IF a < b THEN a ELSE b

\* String.prototype.slice(0, n)
slice(s, n) == SubSeq(s, 1, Min(n, Len(s)))

\* String.prototype.includes
includes(s, sub) ==
  \E k \in 0..(Len(s) - Len(sub)) : SubSeq(s, k + 1, k + Len(sub)) = sub

\* String.prototype.toLowerCase, on the letters of the English alphabet
UpperCase ==
  << "A","B","C","D","E","F","G","H","I","J","K","L","M","N","O","P","Q","R",
     "S","T","U","V","W","X","Y","Z" >>

LowerCase ==
  << "a","b","c","d","e","f","g","h","i","j","k","l","m","n","o","p","q","r",
     "s","t","u","v","w","x","y","z" >>

\* a bug: the text is compared as it is written
toLowerCaseSame(s) == s

\* the small letter of each capital
LowerOf ==
  [ c \in { UpperCase[n] : n \in DOMAIN UpperCase } |->
      LowerCase[CHOOSE n \in DOMAIN UpperCase : UpperCase[n] = c] ]

toLowerCase(s) ==
  [ k \in DOMAIN s |-> IF s[k] \in DOMAIN LowerOf THEN LowerOf[s[k]] ELSE s[k] ]

\* Date.prototype.toLocaleString(): date and time of day, to the second
toLocaleString(ms) == ms \div 1000

\* new Date(timestamp).getTime(): the instant the display string names
parseDate(timestamp) == timestamp * 1000

\* a bug: the id does not depend on the clock
newIdFixed(ms) == ToString(0)

\* Date.now().toString()
newId(ms) == ToString(ms)

NoReactions == [e \in {} |-> 0]

\* the message literals of handleSubmit (userMessage, assistantMessage,
\* errorMessage)
Message(role, content, ms) ==
  [ role |-> role, content |-> content, timestamp |-> toLocaleString(ms),
    isPinned |-> FALSE, reactions |-> NoReactions, lastEdited |-> << >> ]

userMessage(t, ms) == Message("user", t, ms)

\* a bug: the name is the whole topic, not cut to 20 characters
sessionNameWhole(t) == IF t # << >> THEN t ELSE NewChat

sessionName(t) == IF slice(t, 20) # << >> THEN slice(t, 20) ELSE NewChat

newSession(t, ms) ==
  [ id |-> newId(ms), name |-> sessionName(t),
    messages |-> << userMessage(t, ms) >> ]

\* a bug: the session is rebuilt from its messages as they were created,
\* without the pins given since
appendMessageStale(prev, sid, msg) ==
  [ i \in DOMAIN prev |->
      IF prev[i].id = sid
        THEN [ prev[i] EXCEPT !.messages =
                 Append([ k \in DOMAIN @ |-> [ @[k] EXCEPT !.isPinned = FALSE ] ],
                        msg) ]
        ELSE prev[i] ]

\* prev.map(s => s.id === sid ? {...s, messages: [...s.messages, msg]} : s)
appendMessage(prev, sid, msg) ==
  [ i \in DOMAIN prev |->
      IF prev[i].id = sid
        THEN [ prev[i] EXCEPT !.messages = Append(@, msg) ]
        ELSE prev[i] ]

\* sessions.find(s => s.id === cur): position of the first match, 0 if none
currentIndex(sess, cur) ==
  IF \E i \in DOMAIN sess : sess[i].id = cur
    THEN CHOOSE i \in DOMAIN sess :
           /\ sess[i].id = cur
           /\ \A j \in DOMAIN sess : j < i => sess[j].id # cur
    ELSE 0

\* a bug: the comparator the other way round, (a.isPinned ? 1 : 0) -
\* (b.isPinned ? 1 : 0), which puts the pinned messages last
sortPinnedInverted(msgs) ==
  SelectSeq(msgs, LAMBDA m : ~m.isPinned) \o
  SelectSeq(msgs, LAMBDA m : m.isPinned)

\* messages.sort((a, b) => (b.isPinned ? 1 : 0) - (a.isPinned ? 1 : 0)):
\* Array.prototype.sort is stable, the key has two values
sortPinned(msgs) ==
  SelectSeq(msgs, LAMBDA m : m.isPinned) \o
  SelectSeq(msgs, LAMBDA m : ~m.isPinned)

\* rendering sorts the current session's message array in place
render(sess, cur) ==
  [ i \in DOMAIN sess |->
      IF i = currentIndex(sess, cur)
        THEN [ sess[i] EXCEPT !.messages = sortPinned(@) ]
        ELSE sess[i] ]

currentMessages == sessions[currentIndex(sessions, currentSessionId)].messages

\* the indexes of the message rows rendered for the current session:
\* currentSession.messages.sort(...).slice(0, visibleMessages).map(...)
renderedIndexes ==
  IF currentIndex(sessions, currentSessionId) = 0
    THEN {}
    ELSE 0..(Len(slice(currentMessages, visibleMessages)) - 1)

\* sessions.filter(session => name includes query || some content includes
\* query), both sides in lower case
filteredSessions(sess, query) ==
  SelectSeq(sess, LAMBDA session :
    \/ includes(toLowerCase(session.name), toLowerCase(query))
    \/ \E k \in DOMAIN session.messages :
         includes(toLowerCase(session.messages[k].content), toLowerCase(query)))

---------------------------------------------------------------------------
(* Persistence: a JSON text is modelled by the value it denotes, tagged     *)
(* json; a text that denotes no value is tagged raw.  A property whose      *)
(* value is undefined is left out by JSON.stringify and reads back as       *)
(* undefined.                                                               *)
stringifyMessage(m) ==
  IF m.lastEdited = << >>
    THEN [ role |-> m.role, content |-> m.content, timestamp |-> m.timestamp,
           isPinned |-> m.isPinned, reactions |-> m.reactions ]
    ELSE [ role |-> m.role, content |-> m.content, timestamp |-> m.timestamp,
           isPinned |-> m.isPinned, reactions |-> m.reactions,
           lastEdited |-> m.lastEdited[1] ]

parseMessage(j) ==
  [ role |-> j.role, content |-> j.content, timestamp |-> j.timestamp,
    isPinned |-> j.isPinned, reactions |-> j.reactions,
    lastEdited |-> IF "lastEdited" \in DOMAIN j THEN << j.lastEdited >>
                                                ELSE << >> ]

\* JSON.stringify(sessions)
stringify(sess) ==
  [ json |->
      [ i \in DOMAIN sess |->
          [ id |-> sess[i].id, name |-> sess[i].name,
            messages |-> [ k \in DOMAIN sess[i].messages |->
                             stringifyMessage(sess[i].messages[k]) ] ] ] ]

\* JSON.parse throws a SyntaxError on a text that is not JSON
SyntaxError(text) == "json" \notin DOMAIN text

\* JSON.parse(savedSessions), for a text that is JSON
parse(text) ==
  [ i \in DOMAIN text.json |->
      [ id |-> text.json[i].id, name |-> text.json[i].name,
        messages |-> [ k \in DOMAIN text.json[i].messages |->
                         parseMessage(text.json[i].messages[k]) ] ] ]

\* a bug: the empty collection is written like any other
persistAlways(st, sess) == << stringify(sess) >>

\* a bug: only the first snapshot is written
persistFirst(st, sess) ==
  IF Len(sess) > 0 /\ st = << >> THEN << stringify(sess) >> ELSE st

\* the effect on [sessions, ...]:
\* if (sessions.length > 0) localStorage.setItem("chatSessions", ...)
persist(st, sess) == IF Len(sess) > 0 THEN << stringify(sess) >> ELSE st

\* the mount effect: if (savedSessions) setSessions(JSON.parse(savedSessions))
hydrate(st) == IF st # << >> THEN parse(st[1]) ELSE << >>

\* the mount effect throws: the stored text is there and is not JSON
hydrateThrows(st) == st # << >> /\ SyntaxError(st[1])

---------------------------------------------------------------------------
(* The history variable: which operation made the last step. *)
Log(e) == ev' = e /\ UNCHANGED scenario

Init ==
  /\ topic = << >>
  /\ sessions = << >>
  /\ currentSessionId = Null
  /\ isLoading = FALSE
  /\ editingMessageIndex = NoIndex
  /\ editContent = << >>
  /\ showEmojiPicker = NoIndex
  /\ pending = << >>
  /\ now = 0
  /\ stored = << >>
  /\ mounted = TRUE
  /\ searchQuery = << >>
  /\ visibleMessages = InitialVisible
  /\ scenario \in Scenarios
  /\ ev = [ op |-> "init" ]

\* the page is loaded again, which takes time: every useState starts over,
\* the calls that were awaiting a response are gone with the old page, the
\* mount effect reads the stored text, the persist effect runs a first time
\* on the empty collection of the first render and a second time on the
\* hydrated collection.  If the mount effect throws, nothing catches the
\* error and React unmounts the page: no state is set and the persist
\* effect does not run a second time.
reload ==
  /\ scenario \in { "reload", "pin" }
  /\ stored # << >>
  /\ \E t \in InstantsOf(scenario) : t > now /\ now' = t
  /\ topic' = << >>
  /\ currentSessionId' = Null
  /\ isLoading' = FALSE
  /\ editingMessageIndex' = NoIndex
  /\ editContent' = << >>
  /\ showEmojiPicker' = NoIndex
  /\ searchQuery' = << >>
  /\ visibleMessages' = InitialVisible
  /\ pending' = << >>
  /\ IF hydrateThrows(stored)
       THEN /\ mounted' = FALSE
            /\ sessions' = << >>
            /\ stored' = persist(stored, << >>)
       ELSE /\ mounted' = TRUE
            /\ sessions' = render(hydrate(stored), Null)
            /\ stored' = persist(persist(stored, << >>), sessions')
  /\ Log([ op |-> "reload" ])

---------------------------------------------------------------------------
(* The environment: time passes, the stored text is damaged, the user     *)
(* types.                                                                  *)
Tick ==
  \E t \in InstantsOf(scenario) :
    /\ scenario = "late"
    /\ t > now
    /\ now' = t
    /\ Log([ op |-> "tick" ])
    /\ UNCHANGED << stored, topic, sessions, currentSessionId, isLoading,
                    editingMessageIndex, editContent, showEmojiPicker, pending,
                    mounted, searchQuery, visibleMessages >>

\* something other than this page leaves a text that is not JSON under the
\* key "chatSessions" (a truncated write, another version of the page, the
\* user in the developer tools)
corruptStorage ==
  /\ scenario = "reload"
  /\ ~hydrateThrows(stored)
  /\ stored' = << Unparseable >>
  /\ Log([ op |-> "corruptStorage" ])
  /\ UNCHANGED << topic, sessions, currentSessionId, isLoading,
                  editingMessageIndex, editContent, showEmojiPicker, pending,
                  now, mounted, searchQuery, visibleMessages >>

\* onChange of the topic textarea
setTopic ==
  \E t \in TopicsOf(scenario) :
    /\ mounted
    /\ topic # t
    /\ topic' = t
    /\ Log([ op |-> "setTopic" ])
    /\ UNCHANGED << stored, sessions, currentSessionId, isLoading, editingMessageIndex,
                    editContent, showEmojiPicker, pending, now, mounted, searchQuery,
                    visibleMessages >>

---------------------------------------------------------------------------
(* handleSubmit up to the await. *)
\* room for the user message and the reply within the bounds of the model
SubmitFits ==
  /\ Len(pending) < PendingOf(scenario)
  /\ IF currentSessionId = Null
       THEN Len(sessions) < MaxSessions /\ now + 1 \in ReadingsOf(scenario)
       ELSE \A i \in DOMAIN sessions :
              sessions[i].id = currentSessionId =>
                Len(sessions[i].messages)
                  + Cardinality({ k \in DOMAIN pending :
                                    pending[k].currentSessionId = currentSessionId })
                  + 2 <= MessagesOf(scenario)

\* if (!topic) return
rejects(t) == t = << >>

submitSessions(prev, cur, t, ms) ==
  IF cur = Null
    THEN Append(prev, newSession(t, ms))
    ELSE appendMessage(prev, cur, userMessage(t, ms))

submitCurrent(cur, ms) == IF cur = Null THEN newId(ms) ELSE cur

\* the clock once the handler has run: creating a session is the one thing
\* that must not happen twice at the same reading, so the millisecond that
\* passes before the next gesture is counted here
submitClock(cur, ms) == IF cur = Null THEN ms + 1 ELSE ms

handleSubmit ==
  /\ mounted
  /\ IF rejects(topic)
       THEN /\ Log([ op |-> "handleSubmit", accepted |-> FALSE,
                    fresh |-> currentSessionId = Null ])
            /\ UNCHANGED << stored, topic, sessions, currentSessionId, isLoading,
                            editingMessageIndex, editContent, showEmojiPicker,
                            pending, now, mounted, searchQuery,
                            visibleMessages >>
       ELSE /\ SubmitFits
            /\ currentSessionId' = submitCurrent(currentSessionId, now)
            /\ sessions' = render(submitSessions(sessions, currentSessionId, topic, now),
                                  currentSessionId')
            /\ topic' = << >>
            /\ isLoading' = TRUE
            /\ pending' = Append(pending, [ topic |-> topic,
                                            currentSessionId |-> currentSessionId ])
            /\ Log([ op |-> "handleSubmit", accepted |-> TRUE,
                    fresh |-> currentSessionId = Null ])
            /\ stored' = persist(stored, sessions')
            /\ now' = submitClock(currentSessionId, now)
            /\ UNCHANGED << editingMessageIndex, editContent, showEmojiPicker,
                            mounted, searchQuery, visibleMessages >>

\* the send button, disabled={isLoading}
clickSend == ~isLoading /\ handleSubmit

\* handleKeyDown: Enter without shift submits, any other key does nothing here
handleKeyDown ==
  /\ mounted
  /\ \E shiftKey \in BOOLEAN :
       IF ~shiftKey
         THEN handleSubmit
         ELSE /\ Log([ op |-> "handleKeyDown" ])
              /\ UNCHANGED << stored, topic, sessions, currentSessionId, isLoading,
                              editingMessageIndex, editContent, showEmojiPicker,
                              pending, now, mounted, searchQuery,
                              visibleMessages >>

---------------------------------------------------------------------------
(* The /api/chat route and the settlement of the await in handleSubmit. *)
responseWithSources(aiResponse, t) ==
  aiResponse \o SourcesHead \o t \o SourcesMid \o t \o SourcesTail

\* POST: the provider's answer, or its failure, becomes the HTTP response
POST(t, upstream) ==
  IF upstream.ok
    THEN [ status |-> 200,
           data |-> responseWithSources(upstream.generated_text, t) ]
    ELSE [ status |-> IF upstream.status # 0 THEN upstream.status ELSE 500,
           data |-> [ error |-> upstream.message ] ]

\* axios resolves on a 2xx status and rejects otherwise
resolves(res) == res.status >= 200 /\ res.status < 300

\* a bug: the catch branch shows the error the route answered with
settleMessageRaw(res, ms) ==
  IF resolves(res)
    THEN Message("assistant", res.data, ms)
    ELSE Message("assistant", res.data.error, ms)

\* assistantMessage (try) or errorMessage (catch)
settleMessage(res, ms) ==
  IF resolves(res)
    THEN Message("assistant", res.data, ms)
    ELSE Message("assistant", Apology, ms)

\* a bug: the reply goes to the session that is current when it arrives
settleTargetLive(req, cur) == cur

\* s.id === currentSessionId after the await: the currentSessionId of the
\* render in which handleSubmit was called, not the one set since
settleTarget(req, cur) == req.currentSessionId

\* a bug: the flag is cleared at the end of the try block only
finallyLoadingInTry(res) == ~resolves(res)

\* finally { setIsLoading(false) }, after either outcome
finallyLoading(res) == FALSE

\* the sequence without its i-th element
RemoveAt(q, i) == SubSeq(q, 1, i - 1) \o SubSeq(q, i + 1, Len(q))

\* a bug: a call that failed is dispatched again
settlePendingRetry(q, i, res) ==
  IF resolves(res) THEN RemoveAt(q, i) ELSE Append(RemoveAt(q, i), q[i])

\* the await is over and handleSubmit posts nothing more: neither the try
\* nor the catch branch calls axios.post again
settlePending(q, i, res) == RemoveAt(q, i)

settle(i, upstream) ==
  LET req == pending[i]
      res == POST(req.topic, upstream)
  IN /\ sessions' = render(appendMessage(sessions,
                                         settleTarget(req, currentSessionId),
                                         settleMessage(res, now)),
                           currentSessionId)
     /\ isLoading' = finallyLoading(res)
     /\ pending' = settlePending(pending, i, res)
     /\ Log([ op |-> "settle", i |-> i, ok |-> upstream.ok,
              sid |-> req.currentSessionId ])
     /\ stored' = persist(stored, sessions')
     /\ UNCHANGED << topic, currentSessionId, editingMessageIndex, editContent,
                     showEmojiPicker, now, mounted, searchQuery,
                     visibleMessages >>

settleSuccess ==
  \E i \in DOMAIN pending, g \in GeneratedTexts :
    settle(i, [ ok |-> TRUE, generated_text |-> g ])

settleFailure ==
  \E i \in DOMAIN pending, f \in UpstreamFailures :
    settle(i, [ ok |-> FALSE, message |-> f.message, status |-> f.status ])

---------------------------------------------------------------------------
(* The session list: the search box and the rows of filteredSessions. *)
\* onChange of the search box
setSearchQuery ==
  \E q \in Queries :
    /\ scenario = "reload"
    /\ mounted
    /\ searchQuery # q
    /\ searchQuery' = q
    /\ Log([ op |-> "setSearchQuery" ])
    /\ UNCHANGED << stored, topic, sessions, currentSessionId, isLoading,
                    editingMessageIndex, editContent, showEmojiPicker, pending,
                    now, mounted, visibleMessages >>

sessionIds ==
  { filteredSessions(sessions, searchQuery)[i].id :
      i \in DOMAIN filteredSessions(sessions, searchQuery) }

deleteSessions(prev, id) == SelectSeq(prev, LAMBDA s : s.id # id)

\* a bug: the pointer is kept when its session is deleted
deleteCurrentNever(cur, id) == cur

\* a bug: every deletion clears the pointer
deleteCurrentAlways(cur, id) == Null

deleteCurrent(cur, id) == IF cur = id THEN Null ELSE cur

handleDeleteSession ==
  \E id \in sessionIds :
    /\ currentSessionId' = deleteCurrent(currentSessionId, id)
    /\ sessions' = render(deleteSessions(sessions, id), currentSessionId')
    /\ Log([ op |-> "handleDeleteSession", id |-> id,
             wasCurrent |-> currentSessionId = id ])
    /\ stored' = persist(stored, sessions')
    /\ UNCHANGED << topic, isLoading, editingMessageIndex, editContent,
                    showEmojiPicker, pending, now, mounted, searchQuery,
                    visibleMessages >>

\* a bug: a session is selected only when none is current
selectCurrentIfNone(cur, id) == IF cur = Null THEN id ELSE cur

\* setCurrentSessionId(id)
selectCurrent(cur, id) == id

handleSessionClick ==
  \E id \in sessionIds :
    /\ currentSessionId' = selectCurrent(currentSessionId, id)
    /\ topic' = << >>
    /\ sessions' = render(sessions, currentSessionId')
    /\ Log([ op |-> "handleSessionClick", id |-> id ])
    /\ UNCHANGED << stored, isLoading, editingMessageIndex, editContent,
                    showEmojiPicker, pending, now, mounted, searchQuery,
                    visibleMessages >>

---------------------------------------------------------------------------
(* Pinning. *)
\* a bug: a pinned message stays pinned
flipPinnedOn(msg) == [ msg EXCEPT !.isPinned = TRUE ]

\* { ...msg, isPinned: !msg.isPinned }
flipPinned(msg) == [ msg EXCEPT !.isPinned = ~@ ]

\* s.messages.map((msg, idx) => idx === messageIndex ? ... : msg).sort(...)
pinMessages(msgs, messageIndex) ==
  sortPinned([ k \in DOMAIN msgs |->
                 IF k - 1 = messageIndex THEN flipPinned(msgs[k]) ELSE msgs[k] ])

\* prev.map(s => s.id === currentSessionId ? { ...s, messages: ... } : s)
pinSessions(prev, cur, messageIndex) ==
  [ i \in DOMAIN prev |->
      IF prev[i].id = cur
        THEN [ prev[i] EXCEPT !.messages = pinMessages(@, messageIndex) ]
        ELSE prev[i] ]

togglePinMessage ==
  \E messageIndex \in renderedIndexes :
    /\ scenario \in { "pin", "edit" }
    /\ sessions' = render(pinSessions(sessions, currentSessionId, messageIndex),
                          currentSessionId)
    /\ Log([ op |-> "togglePinMessage", messageIndex |-> messageIndex ])
    /\ stored' = persist(stored, sessions')
    /\ UNCHANGED << topic, currentSessionId, isLoading, editingMessageIndex,
                    editContent, showEmojiPicker, pending, now, mounted, searchQuery,
                    visibleMessages >>

---------------------------------------------------------------------------
(* Editing. *)
EditWindowMinutes == 5
MsPerMinute == 60000

\* a bug: the window closes at 5 minutes sharp (>= for >)
editTooOldStrict(ms, timestamp) ==
  (ms - parseDate(timestamp)) >= EditWindowMinutes * MsPerMinute

\* timeDiff = (now - messageTime) / 60000; timeDiff > 5, in whole ms
editTooOld(ms, timestamp) ==
  (ms - parseDate(timestamp)) > EditWindowMinutes * MsPerMinute

\* { ...msg, content, lastEdited: now.toLocaleString() }
editMessage(msg, content, ms) ==
  [ msg EXCEPT !.content = content, !.lastEdited = << toLocaleString(ms) >> ]

\* s.messages.map((msg, idx) => idx === messageIndex ? ... : msg)
editMessages(msgs, messageIndex, content, ms) ==
  [ k \in DOMAIN msgs |->
      IF k - 1 = messageIndex THEN editMessage(msgs[k], content, ms)
                              ELSE msgs[k] ]

\* prev.map(s => s.id === currentSessionId ? { ...s, messages: ... } : s)
editSessions(prev, cur, messageIndex, content, ms) ==
  [ i \in DOMAIN prev |->
      IF prev[i].id = cur
        THEN [ prev[i] EXCEPT
                 !.messages = editMessages(@, messageIndex, content, ms) ]
        ELSE prev[i] ]

\* the edit button, rendered on user messages only
startEdit ==
  \E index \in renderedIndexes :
    /\ scenario \in { "edit", "late" }
    /\ currentMessages[index + 1].role = "user"
    /\ editingMessageIndex' = index
    /\ editContent' = currentMessages[index + 1].content
    /\ Log([ op |-> "startEdit", index |-> index ])
    /\ UNCHANGED << stored, topic, sessions, currentSessionId, isLoading,
                    showEmojiPicker, pending, now, mounted, searchQuery,
                    visibleMessages >>

\* onChange of the edit textarea, rendered in the row editingMessageIndex
setEditContent ==
  \E c \in EditInputs :
    /\ editingMessageIndex \in renderedIndexes
    /\ editContent # c
    /\ editContent' = c
    /\ Log([ op |-> "setEditContent" ])
    /\ UNCHANGED << stored, topic, sessions, currentSessionId, isLoading,
                    editingMessageIndex, showEmojiPicker, pending, now, mounted, searchQuery,
                    visibleMessages >>

\* the Cancel button
cancelEdit ==
  /\ editingMessageIndex \in renderedIndexes
  /\ editingMessageIndex' = NoIndex
  /\ editContent' = << >>
  /\ Log([ op |-> "cancelEdit" ])
  /\ UNCHANGED << stored, topic, sessions, currentSessionId, isLoading,
                  showEmojiPicker, pending, now, mounted, searchQuery,
                  visibleMessages >>

\* the Save button: handleEditMessage(index, editContent)
handleEditMessage ==
  /\ editingMessageIndex \in renderedIndexes
  /\ LET messageIndex == editingMessageIndex
         target == currentMessages[messageIndex + 1]
     IN IF editTooOld(now, target.timestamp)
          THEN /\ Log([ op |-> "handleEditMessage", saved |-> FALSE ])
               /\ UNCHANGED << stored, topic, sessions, currentSessionId, isLoading,
                               editingMessageIndex, editContent,
                               showEmojiPicker, pending, now, mounted, searchQuery,
                               visibleMessages >>
          ELSE /\ sessions' =
                    render(editSessions(sessions, currentSessionId,
                                        messageIndex, editContent, now),
                           currentSessionId)
               /\ editingMessageIndex' = NoIndex
               /\ editContent' = << >>
               /\ Log([ op |-> "handleEditMessage", saved |-> TRUE ])
               /\ stored' = persist(stored, sessions')
               /\ UNCHANGED << topic, currentSessionId, isLoading,
                               showEmojiPicker, pending, now, mounted, searchQuery,
                               visibleMessages >>

---------------------------------------------------------------------------
(* Reactions. *)
\* a bug: the counter starts over at every reaction
countOfFresh(reactions, emoji) == 0

\* (msg.reactions?.[emoji] || 0)
countOf(reactions, emoji) ==
  IF emoji \in DOMAIN reactions THEN reactions[emoji] ELSE 0

\* { ...msg, reactions: { ...msg.reactions, [emoji]: count + 1 } }
react(msg, emoji) ==
  [ msg EXCEPT !.reactions =
      [ x \in (DOMAIN msg.reactions) \cup { emoji } |->
          IF x = emoji THEN countOf(msg.reactions, emoji) + 1
                       ELSE msg.reactions[x] ] ]

\* s.messages.map((msg, idx) => idx === messageIndex ? ... : msg)
reactMessages(msgs, messageIndex, emoji) ==
  [ k \in DOMAIN msgs |->
      IF k - 1 = messageIndex THEN react(msgs[k], emoji) ELSE msgs[k] ]

\* prev.map(s => s.id === currentSessionId ? { ...s, messages: ... } : s)
reactSessions(prev, cur, messageIndex, emoji) ==
  [ i \in DOMAIN prev |->
      IF prev[i].id = cur
        THEN [ prev[i] EXCEPT !.messages = reactMessages(@, messageIndex, emoji) ]
        ELSE prev[i] ]

RECURSIVE SumOver(_, _)
SumOver(f, S) ==
  IF S = {} THEN 0
  ELSE LET x == CHOOSE x \in S : TRUE IN f[x] + SumOver(f, S \ { x })

RECURSIVE ReactionsIn(_)
ReactionsIn(msgs) ==
  IF msgs = << >> THEN 0
  ELSE SumOver(Head(msgs).reactions, DOMAIN Head(msgs).reactions)
         + ReactionsIn(Tail(msgs))

RECURSIVE ReactionsInStore(_)
ReactionsInStore(sess) ==
  IF sess = << >> THEN 0
  ELSE ReactionsIn(Head(sess).messages) + ReactionsInStore(Tail(sess))

\* the reaction button of a message row
openEmojiPicker ==
  \E index \in renderedIndexes :
    /\ scenario = "react"
    /\ showEmojiPicker # index
    /\ showEmojiPicker' = index
    /\ Log([ op |-> "openEmojiPicker", index |-> index ])
    /\ UNCHANGED << stored, topic, sessions, currentSessionId, isLoading,
                    editingMessageIndex, editContent, pending, now, mounted, searchQuery,
                    visibleMessages >>

\* onEmojiClick of the picker: addReaction(showEmojiPicker.msgIndex, emoji)
addReaction ==
  \E emoji \in Emojis :
    /\ showEmojiPicker # NoIndex
    /\ ReactionsInStore(sessions) < MaxReactions
    /\ LET messageIndex == showEmojiPicker
       IN IF currentSessionId = Null
            THEN /\ Log([ op |-> "addReaction", messageIndex |-> messageIndex,
                          emoji |-> emoji ])
                 /\ UNCHANGED << stored, topic, sessions, currentSessionId, isLoading,
                                 editingMessageIndex, editContent,
                                 showEmojiPicker, pending, now, mounted, searchQuery,
                                 visibleMessages >>
            ELSE /\ sessions' =
                      render(reactSessions(sessions, currentSessionId,
                                           messageIndex, emoji),
                             currentSessionId)
                 /\ showEmojiPicker' = NoIndex
                 /\ Log([ op |-> "addReaction", messageIndex |-> messageIndex,
                          emoji |-> emoji ])
                 /\ stored' = persist(stored, sessions')
                 /\ UNCHANGED << topic, currentSessionId, isLoading,
                                 editingMessageIndex, editContent, pending,
                                 now, mounted, searchQuery, visibleMessages >>

---------------------------------------------------------------------------
(* The message window. *)
PageSize == 10

\* a bug: the window grows by a page whatever the session holds
loadMoreCountUncapped(prev, length) == prev + PageSize

\* Math.min(prev + 10, getCurrentSession()?.messages.length || 10), with
\* length 0 for no current session
loadMoreCount(prev, length) ==
  Min(prev + PageSize, IF length # 0 THEN length ELSE PageSize)

currentLength ==
  IF currentIndex(sessions, currentSessionId) = 0 THEN 0
                                                  ELSE Len(currentMessages)

\* the Load More button, rendered when the current session has more than
\* visibleMessages messages
loadMoreMessages ==
  /\ currentLength > visibleMessages
  /\ visibleMessages' = loadMoreCount(visibleMessages, currentLength)
  /\ Log([ op |-> "loadMoreMessages" ])
  /\ UNCHANGED << stored, topic, sessions, currentSessionId, isLoading,
                  editingMessageIndex, editContent, showEmojiPicker, pending,
                  now, mounted, searchQuery >>

---------------------------------------------------------------------------
Next ==
  \/ reload
  \/ Tick
  \/ corruptStorage
  \/ setTopic
  \/ clickSend
  \/ handleKeyDown
  \/ settleSuccess
  \/ settleFailure
  \/ setSearchQuery
  \/ handleDeleteSession
  \/ handleSessionClick
  \/ togglePinMessage
  \/ startEdit
  \/ setEditContent
  \/ cancelEdit
  \/ handleEditMessage
  \/ openEmojiPicker
  \/ addReaction
  \/ loadMoreMessages

Spec == Init /\ [][Next]_vars

---------------------------------------------------------------------------
(* Properties.  A step is told by ev' (the operation that made it); the     *)
(* unprimed variables are the state it started from.                        *)
Last(q) == q[Len(q)]

\* after is before with one element added at the end
Extends(before, after) ==
  /\ Len(after) = Len(before) + 1
  /\ SubSeq(after, 1, Len(before)) = before

\* the first n characters of a string, for n >= 1
FirstChars(str, n) ==
  IF Len(str) <= n THEN str ELSE [ k \in 1..n |-> str[k] ]

OnlyWhitespace(str) == \A k \in DOMAIN str : str[k] = " "

\* every text the assistant can be given to say
AssistantTexts ==
  { Apology } \cup
  { g \o SourcesHead \o t \o SourcesMid \o t \o SourcesTail :
      g \in GeneratedTexts, t \in TopicInputs }

\* the text /api/chat answers a settled request with
ReplyTo(req, g) == g \o SourcesHead \o req.topic \o SourcesMid \o req.topic \o SourcesTail

(* C1: a topic submitted with no current session and answered with text T  *)
(* leaves the session it created with exactly two messages, the user       *)
(* message with the topic and then an assistant message with content T.    *)
(* Stated for a topic that is not blank, submitted while nothing else is   *)
(* outstanding and settled in the very next step.                          *)
C1_NewSessionGetsReply ==
  [][ ( /\ ev.op = "handleSubmit" /\ ev.accepted /\ ev.fresh
        /\ Len(pending) = 1
        /\ ~OnlyWhitespace(pending[1].topic)
        /\ ev'.op = "settle" /\ ev'.ok )
      => LET s == Last(sessions')
             req == pending[1]
         IN /\ Len(s.messages) = 2
            /\ s.messages[1].role = "user"
            /\ s.messages[1].content = req.topic
            /\ s.messages[2].role = "assistant"
            /\ \E g \in GeneratedTexts : s.messages[2].content = ReplyTo(req, g)
    ]_vars

\* what a submission into the current session does at once
C2_SubmitPart ==
  ( /\ ev'.op = "handleSubmit" /\ ev'.accepted /\ currentSessionId # Null )
  => /\ Len(sessions') = Len(sessions)
     /\ currentSessionId' = currentSessionId
     /\ \E k \in DOMAIN sessions : sessions[k].id = currentSessionId
     /\ \A k \in DOMAIN sessions :
          IF sessions[k].id = currentSessionId
            THEN /\ Extends(sessions[k].messages, sessions'[k].messages)
                 /\ Last(sessions'[k].messages).role = "user"
                 /\ Last(sessions'[k].messages).content = topic
                 /\ sessions'[k].id = sessions[k].id
                 /\ sessions'[k].name = sessions[k].name
            ELSE sessions'[k] = sessions[k]

\* what the settlement of a request submitted into session S does, when S is
\* in the collection
C2_SettlePart ==
  ( /\ ev'.op = "settle" /\ ev'.sid # Null )
  => /\ Len(sessions') = Len(sessions)
     /\ \A k \in DOMAIN sessions :
          IF sessions[k].id = ev'.sid
            THEN /\ Extends(sessions[k].messages, sessions'[k].messages)
                 /\ Last(sessions'[k].messages).role = "assistant"
                 /\ sessions'[k].id = sessions[k].id
                 /\ sessions'[k].name = sessions[k].name
            ELSE sessions'[k] = sessions[k]

(* C2 as claimed: a topic submitted while session S is current adds one    *)
(* user message to S at once and, when the request settles, one assistant  *)
(* message to S, with no new session, whatever the user did in between.    *)
(* The runs with blank topics and overlapping requests are left aside.     *)
C2_ReplyAlwaysReachesSession ==
  [][ scenario # "core"
      => /\ C2_SubmitPart
         /\ C2_SettlePart
         /\ ( ev'.op = "settle" /\ ev'.sid # Null )
              => \E k \in DOMAIN sessions : sessions[k].id = ev'.sid
    ]_vars

(* C2 as amended: the same, with the assistant message added to S only if  *)
(* S is still in the collection when the request settles; if S was deleted *)
(* in between, the settlement changes no session.                          *)
C2_ReplyReachesSessionIfPresent ==
  [][ C2_SubmitPart /\ C2_SettlePart ]_vars

\* a reply has arrived in a session that the user has left in the meantime
C2_Witness ==
  /\ ev.op = "settle"
  /\ ev.sid # Null
  /\ ev.sid # currentSessionId
  /\ \E k \in DOMAIN sessions :
       /\ sessions[k].id = ev.sid
       /\ Len(sessions[k].messages) >= 2
       /\ Last(sessions[k].messages).role = "assistant"

(* C3: a non-empty topic submitted while the pointer is null appends one   *)
(* session at the end of the collection, with the user message as its only *)
(* message and the first 20 characters of the topic as its name, makes it  *)
(* current and leaves the sessions that were there unchanged.              *)
C3_SubmitCreatesSession ==
  [][ ( /\ ev'.op = "handleSubmit" /\ ev'.accepted /\ currentSessionId = Null )
      => /\ Extends(sessions, sessions')
         /\ LET s == Last(sessions')
            IN /\ Len(s.messages) = 1
               /\ s.messages[1].role = "user"
               /\ s.messages[1].content = topic
               /\ s.name = FirstChars(topic, 20)
               /\ currentSessionId' = s.id
               /\ currentSessionId' # Null
    ]_vars

\* a session has just been created after others, with a name cut to 20
C3_Witness ==
  /\ ev.op = "handleSubmit" /\ ev.accepted /\ ev.fresh
  /\ Len(sessions) = 2
  /\ Len(Last(sessions).name) = 20
  /\ Len(Last(sessions).messages[1].content) > 20
  /\ currentSessionId = Last(sessions).id

(* C4: submitting an empty topic or a topic of whitespace only is rejected *)
(* silently: no session, no message, no request, loading flag unchanged.   *)
C4_BlankTopicRejected ==
  [][ ( ev'.op = "handleSubmit" /\ OnlyWhitespace(topic) )
      => UNCHANGED << sessions, currentSessionId, pending, isLoading >>
    ]_vars

(* C5: when a call settles with a failure, every message added by it is an *)
(* assistant message whose content is the apology, and no message of any   *)
(* session ever contains the failure's message.                            *)
C5_FailureShowsApology ==
  /\ [][ ( ev'.op = "settle" /\ ~ev'.ok )
         => /\ Len(sessions') = Len(sessions)
            /\ \A k \in DOMAIN sessions :
                 \/ sessions'[k] = sessions[k]
                 \/ /\ Extends(sessions[k].messages, sessions'[k].messages)
                    /\ Last(sessions'[k].messages).role = "assistant"
                    /\ Last(sessions'[k].messages).content = Apology
       ]_vars
  /\ [](\A k \in DOMAIN sessions : \A n \in DOMAIN sessions[k].messages :
          \A f \in UpstreamFailures :
            ~includes(sessions[k].messages[n].content, f.message))

\* a failed call has just put the apology into a session
C5_Witness ==
  /\ ev.op = "settle" /\ ~ev.ok
  /\ \E k \in DOMAIN sessions :
       /\ sessions[k].id = ev.sid
       /\ Last(sessions[k].messages).role = "assistant"
       /\ Last(sessions[k].messages).content = Apology

(* C6: while the loading flag is true no further submission is admitted,   *)
(* so at most one remote-completion request is ever outstanding.           *)
C6_OneRequestOutstanding ==
  /\ Len(pending) <= 1
  /\ ( ev.op = "handleSubmit" /\ ev.accepted ) => Len(pending) = 1

\* the sessions of a collection whose id is not id, in order
Others(sess, id) == SelectSeq(sess, LAMBDA x : x.id # id)

(* C7: deleteSession(id) removes exactly the sessions with that id and     *)
(* keeps the others unchanged and in order; the pointer becomes null if it *)
(* was id and is unchanged otherwise.                                      *)
C7_DeleteRemovesOnlyThatSession ==
  [][ ev'.op = "handleDeleteSession"
      => /\ \A k \in DOMAIN sessions' : sessions'[k].id # ev'.id
         /\ Others(sessions', ev'.id) = Others(sessions, ev'.id)
         /\ Len(sessions') < Len(sessions)
         /\ currentSessionId = ev'.id => currentSessionId' = Null
         /\ currentSessionId # ev'.id => currentSessionId' = currentSessionId
    ]_vars

\* a session other than the current one has just been deleted
C7_Witness ==
  /\ ev.op = "handleDeleteSession"
  /\ ~ev.wasCurrent
  /\ currentSessionId # Null
  /\ \E k \in DOMAIN sessions : sessions[k].id = currentSessionId

FiveMinutes == 5 * 60 * 1000

\* ms elapsed since the instant a message's timestamp (whole seconds) names
ElapsedSince(m) == now - m.timestamp * 1000

C9_AssistantContentImmutable ==
  \A k \in DOMAIN sessions : \A n \in DOMAIN sessions[k].messages :
    sessions[k].messages[n].role = "assistant"
      => /\ sessions[k].messages[n].content \in AssistantTexts
         /\ sessions[k].messages[n].lastEdited = << >>

(* C10: with a current session, addReaction(i, e) sets the counter of e on *)
(* the message at index i to 1 if absent and adds 1 otherwise; the other   *)
(* counters of that message and every other message are unchanged.         *)
C10_ReactionCounts ==
  [][ ( /\ ev'.op = "addReaction"
        /\ currentSessionId # Null
        /\ ev'.messageIndex \in renderedIndexes )
      => LET i == ev'.messageIndex + 1
             e == ev'.emoji
         IN /\ Len(sessions') = Len(sessions)
            /\ \A k \in DOMAIN sessions :
                 IF sessions[k].id # currentSessionId
                   THEN sessions'[k] = sessions[k]
                   ELSE /\ Len(sessions'[k].messages) = Len(sessions[k].messages)
                        /\ \A n \in DOMAIN sessions[k].messages :
                             IF n # i
                               THEN sessions'[k].messages[n] = sessions[k].messages[n]
                               ELSE LET r == sessions[k].messages[n].reactions
                                        q == sessions'[k].messages[n].reactions
                                    IN /\ DOMAIN q = DOMAIN r \cup { e }
                                       /\ q[e] = IF e \in DOMAIN r THEN r[e] + 1 ELSE 1
                                       /\ \A x \in DOMAIN r \ { e } : q[x] = r[x]
                                       /\ sessions'[k].messages[n] =
                                            [ sessions[k].messages[n] EXCEPT !.reactions = q ]
    ]_vars

\* the same emoji has just been given to the same message a second time
C10_Witness ==
  /\ ev.op = "addReaction"
  /\ \E k \in DOMAIN sessions : \E n \in DOMAIN sessions[k].messages :
       /\ sessions[k].id = currentSessionId
       /\ n = ev.messageIndex + 1
       /\ ev.emoji \in DOMAIN sessions[k].messages[n].reactions
       /\ sessions[k].messages[n].reactions[ev.emoji] = 2

(* C11: whenever the collection is not empty and the stored text is the    *)
(* page's own, the stored text deserializes to the in-memory collection    *)
(* and hydration from it gives an equal collection; every step that leaves *)
(* a changed, non-empty collection leaves such a text; and a reload then   *)
(* reproduces the collection.                                              *)
C11_PersistenceRoundTrip ==
  /\ []( ( mounted /\ Len(sessions) > 0 /\ ~hydrateThrows(stored) )
         => /\ stored # << >>
            /\ parse(stored[1]) = sessions
            /\ render(hydrate(stored), Null) = sessions )
  /\ [][ /\ ( mounted' /\ sessions' # sessions /\ Len(sessions') > 0 )
            => /\ stored' # << >>
               /\ ~SyntaxError(stored'[1])
               /\ parse(stored'[1]) = sessions'
         /\ ( ev'.op = "reload" /\ Len(sessions) > 0 /\ ~hydrateThrows(stored) )
            => sessions' = sessions
       ]_vars

\* a reload has just brought back a conversation with a pinned reply
C11_Witness ==
  /\ ev.op = "reload"
  /\ mounted
  /\ \E k \in DOMAIN sessions : \E n \in DOMAIN sessions[k].messages :
       /\ sessions[k].messages[n].isPinned
       /\ sessions[k].messages[n].role = "assistant"

(* C12: when the page is loaded and the stored text is not parseable, the  *)
(* page starts with an empty collection and stays usable: no uncaught      *)
(* error unmounts it.                                                      *)
C12_MalformedStorageStartsEmpty ==
  [][ ( ev'.op = "reload" /\ hydrateThrows(stored) )
      => /\ mounted'
         /\ sessions' = << >>
    ]_vars

\* the number of messages of a role in the collection
RoleCount(sess, role) ==
  Cardinality(UNION { { << k, n >> : n \in { x \in DOMAIN sess[k].messages :
                                              sess[k].messages[x].role = role } } :
                      k \in DOMAIN sess })

(* C13: an accepted submission appends the user message and dispatches the *)
(* call; an assistant message is appended only by the settlement of a      *)
(* call; and the loading flag is cleared only by a settlement that appends *)
(* the assistant message of its call.                                      *)
C13_SubmissionOrder ==
  [][ /\ ( ev'.op = "handleSubmit" /\ ev'.accepted )
         => /\ RoleCount(sessions', "user") = RoleCount(sessions, "user") + 1
            /\ RoleCount(sessions', "assistant") = RoleCount(sessions, "assistant")
            /\ Extends(pending, pending')
            /\ isLoading'
      /\ ( ev'.op # "reload"
           /\ RoleCount(sessions', "assistant") > RoleCount(sessions, "assistant") )
         => ev'.op = "settle"
      /\ ( ev'.op # "reload" /\ isLoading /\ ~isLoading' )
         => /\ ev'.op = "settle"
            /\ RoleCount(sessions', "assistant")
                 = RoleCount(sessions, "assistant") + 1
    ]_vars

\* the remote call of every outstanding request eventually settles
LiveSpec == Init /\ [][Next]_vars /\ WF_vars(settleSuccess \/ settleFailure)

(* C14: if calls eventually settle, a raised loading flag is eventually    *)
(* lowered; the settlement of a call lowers it whether the call succeeded  *)
(* or failed, and once it is lowered the send button takes a submission.   *)
C14_ReturnsToIdle ==
  /\ isLoading ~> ~isLoading
  /\ [][ ev'.op = "settle" => ~isLoading' ]_vars
  /\ []( ( mounted /\ ~isLoading /\ topic # << >> /\ SubmitFits )
         => ENABLED clickSend )

\* a topic has just been accepted after a call that failed
C14_Witness ==
  /\ ev.op = "handleSubmit" /\ ev.accepted /\ ~ev.fresh
  /\ Len(pending) = 1
  /\ \E k \in DOMAIN sessions :
       /\ sessions[k].id = currentSessionId
       /\ \E n \in DOMAIN sessions[k].messages :
            sessions[k].messages[n].content = Apology

\* the same letter, whatever the case
SameLetter(a, b) ==
  \/ a = b
  \/ a \in DOMAIN LowerOf /\ LowerOf[a] = b
  \/ b \in DOMAIN LowerOf /\ LowerOf[b] = a

\* text contains query, ignoring case
ContainsIgnoringCase(text, query) ==
  \E offset \in 0..(Len(text) - Len(query)) :
    \A j \in DOMAIN query : SameLetter(text[offset + j], query[j])

Matches(session, query) ==
  \/ ContainsIgnoringCase(session.name, query)
  \/ \E n \in DOMAIN session.messages :
       ContainsIgnoringCase(session.messages[n].content, query)

(* C15: filteredSessions(query) is, in collection order, the sessions      *)
(* whose name or one of whose message contents contains the query ignoring *)
(* case; the empty query gives every session; typing a query changes       *)
(* neither the collection nor the pointer.                                 *)
C15_FilteredSessions ==
  /\ [](\A q \in Queries :
          /\ filteredSessions(sessions, q)
               = SelectSeq(sessions, LAMBDA x : Matches(x, q))
          /\ q = << >> => filteredSessions(sessions, q) = sessions)
  /\ [][ ev'.op = "setSearchQuery"
         => UNCHANGED << sessions, currentSessionId >> ]_vars

\* the query in small letters finds the one session of two that holds the
\* apology
C15_Witness ==
  /\ searchQuery = Sorry
  /\ Len(sessions) = 2
  /\ Len(filteredSessions(sessions, searchQuery)) = 1
  /\ Len(filteredSessions(sessions, Moon)) = 2

C17_SelectSessionFrame ==
  [][ ev'.op = "handleSessionClick"
      => /\ currentSessionId' = ev'.id
         /\ topic' = << >>
         /\ sessions' = sessions
         /\ isLoading' = isLoading
         /\ pending' = pending
    ]_vars

\* the other session has just been selected while a call is outstanding
C17_Witness ==
  /\ ev.op = "handleSessionClick"
  /\ isLoading
  /\ Len(pending) = 1
  /\ Len(sessions) = 2
  /\ pending[1].currentSessionId # Null
  /\ pending[1].currentSessionId # currentSessionId

\* the number of times x occurs in q
Occurrences(q, x) == Cardinality({ k \in DOMAIN q : q[k] = x })

\* a and b hold the same messages, each as many times
SameMessages(a, b) ==
  /\ Len(a) = Len(b)
  /\ \A k \in DOMAIN a : Occurrences(a, a[k]) = Occurrences(b, a[k])

(* C18: togglePin(i) flips isPinned of the message at index i of the       *)
(* current session and of no other; the session then holds the same        *)
(* messages, with content, role, timestamp and reactions as before, and    *)
(* every other session is unchanged.                                       *)
C18_TogglePinFlipsOne ==
  [][ ev'.op = "togglePinMessage"
      => LET i == ev'.messageIndex + 1
             flipped == [ currentMessages EXCEPT ![i].isPinned = ~@ ]
         IN /\ Len(sessions') = Len(sessions)
            /\ currentSessionId' = currentSessionId
            /\ \A k \in DOMAIN sessions :
                 IF sessions[k].id = currentSessionId
                   THEN /\ sessions'[k].id = sessions[k].id
                        /\ sessions'[k].name = sessions[k].name
                        /\ SameMessages(flipped, sessions'[k].messages)
                   ELSE sessions'[k] = sessions[k]
    ]_vars

\* with two sessions, a message behind a pinned one has just been toggled
C18_Witness ==
  /\ ev.op = "togglePinMessage"
  /\ ev.messageIndex > 0
  /\ Len(sessions) = 2
  /\ currentIndex(sessions, currentSessionId) # 0
  /\ currentMessages[1].isPinned
  /\ \E n \in DOMAIN currentMessages : ~currentMessages[n].isPinned

C20_LoadingWhileOutstanding ==
  pending # << >> => isLoading

(* C21: an accepted submission dispatches exactly one call, nothing else   *)
(* dispatches a call, and a settlement, failed or not, ends its call and   *)
(* dispatches none: the calls dispatched are as many as the submissions    *)
(* accepted.                                                               *)
C21_OneCallPerSubmission ==
  [][ /\ ( ev'.op = "handleSubmit" /\ ev'.accepted )
         => /\ Extends(pending, pending')
            /\ Last(pending').topic = topic
      /\ Len(pending') > Len(pending)
         => ( ev'.op = "handleSubmit" /\ ev'.accepted )
      /\ ev'.op = "settle"
         => /\ Len(pending') = Len(pending) - 1
            /\ pending' = RemoveAt(pending, ev'.i)
    ]_vars

\* a call has just failed and no call is outstanding
C21_Witness ==
  /\ ev.op = "settle" /\ ~ev.ok
  /\ pending = << >>
  /\ ~isLoading

(* C22: the stored text never denotes an empty collection; a step that     *)
(* leaves the in-memory collection empty leaves the stored text as it was; *)
(* and a page load leaves a saved collection stored and hydrates it.       *)
C22_EmptyNeverSaved ==
  /\ []( ( stored # << >> /\ ~SyntaxError(stored[1]) )
         => Len(parse(stored[1])) > 0 )
  /\ [][ ( Len(sessions') = 0 /\ ev'.op # "corruptStorage" )
         => stored' = stored ]_vars
  /\ [][ ( ev'.op = "reload" /\ ~hydrateThrows(stored) )
         => /\ stored' = stored
            /\ sessions' = parse(stored[1]) ]_vars

\* the last session has just been deleted: the collection in memory is
\* empty and the collection saved before is still stored
C22_Witness ==
  /\ ev.op = "handleDeleteSession"
  /\ sessions = << >>
  /\ stored # << >>
  /\ ~SyntaxError(stored[1])
  /\ Len(parse(stored[1])) >= 1

(* C23: when a session is deleted and the page is then loaded again, the   *)
(* hydrated collection has no session with the deleted id.                 *)
C23_DeletedStaysDeleted ==
  [][ ( ev.op = "handleDeleteSession" /\ ev'.op = "reload" /\ mounted' )
      => \A k \in DOMAIN sessions' : sessions'[k].id # ev.id
    ]_vars

(* C24: the current-session pointer is null or the id of a session of the  *)
(* collection.                                                             *)
C24_PointerValid ==
  \/ currentSessionId = Null
  \/ \E k \in DOMAIN sessions : sessions[k].id = currentSessionId

\* the current session has just been deleted and another one remains
C24_Witness ==
  /\ ev.op = "handleDeleteSession"
  /\ ev.wasCurrent
  /\ currentSessionId = Null
  /\ Len(sessions) >= 1

(* C25: a settlement works on the collection as it is when the call        *)
(* settles: every session and every message of that collection, with its   *)
(* pin, content, reactions and lastEdited, is still there afterwards, and  *)
(* the only change is a message added at the end of a session.             *)
C25_SettlementKeepsLatest ==
  [][ ev'.op = "settle"
      => /\ Len(sessions') = Len(sessions)
         /\ \A k \in DOMAIN sessions :
              \/ sessions'[k] = sessions[k]
              \/ /\ sessions'[k].id = sessions[k].id
                 /\ sessions'[k].name = sessions[k].name
                 /\ Extends(sessions[k].messages, sessions'[k].messages)
    ]_vars

\* a reply has just been added to a session below a message that was pinned
\* while the call was outstanding
C25_Witness ==
  /\ ev.op = "settle"
  /\ \E k \in DOMAIN sessions :
       /\ sessions[k].id = ev.sid
       /\ Len(sessions[k].messages) >= 3
       /\ sessions[k].messages[1].isPinned
       /\ Last(sessions[k].messages).role = "assistant"
       /\ ~Last(sessions[k].messages).isPinned

\* the pinned messages of the sequence come before the others
PinnedFirst(msgs) ==
  \A m, n \in DOMAIN msgs : ( m < n /\ msgs[n].isPinned ) => msgs[m].isPinned

(* C26: in every session the pinned messages come before the unpinned      *)
(* ones, and togglePin moves the toggled message only: the other messages  *)
(* keep their order, so each group keeps its relative order.               *)
C26_PinnedFirstStable ==
  /\ [](\A k \in DOMAIN sessions : PinnedFirst(sessions[k].messages))
  /\ [][ ev'.op = "togglePinMessage"
         => LET i == ev'.messageIndex + 1
                old == currentMessages
                new == sessions'[currentIndex(sessions, currentSessionId)].messages
            IN \E j \in DOMAIN new :
                 /\ new[j] = [ old[i] EXCEPT !.isPinned = ~@ ]
                 /\ RemoveAt(new, j) = RemoveAt(old, i)
       ]_vars

\* a reply was pinned and unpinned again, and now stands before the user
\* message it answers: the order of creation is not restored
C26_Witness ==
  /\ ev.op = "togglePinMessage"
  /\ currentIndex(sessions, currentSessionId) # 0
  /\ \A n \in DOMAIN currentMessages : ~currentMessages[n].isPinned
  /\ currentMessages[1].role = "assistant"

====
